---------------------------- MODULE Spec2Model ----------------------------
(***************************************************************************)
(* Toolbox: a Tkinter dashboard that launches three tool windows, the PDF  *)
(* annotator (pdf_annotator.py), the converter (converter.py) and the      *)
(* screenshot tool (screenshot_tool.py).  The model keeps, per window, the *)
(* fields the constructors set, the canvas display list, and the message   *)
(* the last handler surfaced.  Python objects that are mutable and held by *)
(* reference (the annotations dict) live in a heap of their own.           *)
(***************************************************************************)
EXTENDS Integers, Sequences

VARIABLES
    windows,  \* the tool objects the Dashboard has constructed, in order
    heap,     \* the dict objects: heap[r] is the content of the dict with reference r
    report,   \* what the last handler surfaced to the user
    mouse,    \* per window: button 1 of the pointer, and the gesture in progress
    imports,  \* the tool classes main.py could import
    steps     \* the callbacks the main loop has dispatched

vars == <<windows, heap, report, mouse, imports, steps>>

----------------------------------------------------------------------------
(* Bounds of the model.                                                     *)

\* callbacks dispatched by the main loop in one run
MaxSteps == 6
\* pages of the largest document that can be opened
MaxPages == 2
\* tool windows the Dashboard opens
MaxWindows == 2

\* The pointer positions (event.x, event.y) of the events: x differs from y, so
\* that a swap of the coordinates is visible.
EventPoints == {<<1, 2>>, <<2, 1>>}

\* What simpledialog.askstring returns: "" stands for both the empty string and
\* None (Cancel), which `if text:` treats alike.
TextInputs == {"", "a"}

\* The files a file dialog can return; "" is a cancelled dialog.
PdfPaths == {"a.pdf", "empty.pdf", "bad.pdf"}

\* fitz.open(path): the page count of the document, or -1 when it raises.
PageCount(path) ==
    CASE path = "a.pdf" -> MaxPages
      [] path = "empty.pdf" -> 0
      [] OTHER -> -1

----------------------------------------------------------------------------
(* Values.                                                                  *)

NoLine == 0         \* current_line is None (Tk item ids start at 1)

NoDoc == [isNone |-> TRUE, path |-> "", pages |-> <<>>]

\* A fitz.Document fresh from fitz.open: pages[p + 1] is the drawing/text layer
\* of page p, the marks flattened into it so far.
NewDoc(path) ==
    [isNone |-> FALSE, path |-> path,
     pages |-> [i \in 1..PageCount(path) |-> <<>>]]

\* len(doc)
DocLen(doc) == Len(doc.pages)

\* `not self.doc`: None, or a Document of length 0 (Document defines __len__)
Falsy(doc) == doc.isNone \/ DocLen(doc) = 0

Idle == [pressed |-> FALSE, clean |-> FALSE, page |-> 0, replaced |-> FALSE, pts |-> <<>>]

----------------------------------------------------------------------------
(* dict: a sequence of entries in insertion order.                          *)

DictKeys(d) == {d[i].key : i \in 1..Len(d)}

DictIndex(d, k) == CHOOSE i \in 1..Len(d) : d[i].key = k

\* PageAnnotations()
PageAnnotations(k) == [key |-> k, strokes |-> <<>>, texts |-> <<>>]

\* d.setdefault(k, PageAnnotations())
SetDefault(d, k) == IF k \in DictKeys(d) THEN d ELSE Append(d, PageAnnotations(k))

\* d.get(k), as the entry, or an empty one when absent (falsy either way)
DictGet(d, k) == IF k \in DictKeys(d) THEN d[DictIndex(d, k)] ELSE PageAnnotations(k)

\* a slip: the record is rebuilt with the current page alone
AppendStrokeAlone(d, k, points) ==
    <<[key |-> k, strokes |-> Append(DictGet(d, k).strokes, points),
       texts |-> DictGet(d, k).texts]>>

AppendStroke(d, k, points) ==
    LET e == SetDefault(d, k)
        i == DictIndex(e, k)
    IN  [e EXCEPT ![i].strokes = Append(@, points)]

AppendText(d, k, t) ==
    LET e == SetDefault(d, k)
        i == DictIndex(e, k)
    IN  [e EXCEPT ![i].texts = Append(@, t)]

RECURSIVE SumLen(_, _)
SumLen(d, i) ==
    IF i > Len(d) THEN 0
    ELSE Len(d[i].strokes) + Len(d[i].texts) + SumLen(d, i + 1)

\* the marks a dict holds
NumMarks(d) == SumLen(d, 1)

----------------------------------------------------------------------------
(* The canvas: the display list of items, each with its Tk id.              *)

ItemIds(canvas) == {canvas[i].id : i \in 1..Len(canvas)}

\* Tk gives a new item an id no item has had before.  Only one id is ever kept
\* by the program (current_line), so the least id that is neither on the canvas
\* nor kept stands for it.
FreshId(canvas, kept) ==
    CHOOSE n \in 1..(Len(canvas) + 2) :
        /\ n \notin ItemIds(canvas) \cup {kept}
        /\ \A m \in 1..(n - 1) : m \in ItemIds(canvas) \cup {kept}

CreateItem(canvas, kept, kind, coords, text) ==
    Append(canvas, [id |-> FreshId(canvas, kept), kind |-> kind,
                    coords |-> coords, text |-> text])

\* canvas.coords(id): the coordinate list of the item, empty when no item has
\* this id (the item was deleted)
Coords(canvas, id) ==
    IF id \in ItemIds(canvas)
    THEN canvas[CHOOSE i \in 1..Len(canvas) : canvas[i].id = id].coords
    ELSE <<>>

\* canvas.coords(id, *coords): nothing happens when no item has this id
SetCoords(canvas, id, coords) ==
    [i \in 1..Len(canvas) |->
        IF canvas[i].id = id THEN [canvas[i] EXCEPT !.coords = coords] ELSE canvas[i]]

\* [v for point in stroke for v in point]
RECURSIVE Flat(_)
Flat(stroke) ==
    IF stroke = <<>> THEN <<>>
    ELSE <<stroke[1][1], stroke[1][2]>> \o Flat(Tail(stroke))

\* a slip: the pairs taken as (y, x)
PointsSwapped(coords) ==
    [i \in 1..((Len(coords) + 1) \div 2) |-> <<coords[2 * i], coords[2 * i - 1]>>]

\* [(int(coords[i]), int(coords[i + 1])) for i in range(0, len(coords), 2)]
Points(coords) ==
    [i \in 1..((Len(coords) + 1) \div 2) |-> <<coords[2 * i - 1], coords[2 * i]>>]


----------------------------------------------------------------------------
(* PDFAnnotator: display.                                                   *)

\* A result of a call that may raise: the canvas it leaves and whether it raised.
Drawn(canvas, raised) == [canvas |-> canvas, raised |-> raised]

\* for stroke in page_ann.strokes: self.canvas.create_line(*flat, ...)
\* Tk refuses a line of fewer than two points (TclError).
RECURSIVE DrawStrokes(_, _, _, _)
DrawStrokes(canvas, kept, strokes, i) ==
    IF i > Len(strokes) THEN Drawn(canvas, FALSE)
    ELSE IF Len(Flat(strokes[i])) < 4 THEN Drawn(canvas, TRUE)
    ELSE DrawStrokes(CreateItem(canvas, kept, "line", Flat(strokes[i]), ""),
                     kept, strokes, i + 1)

\* for x, y, text in page_ann.texts: self.canvas.create_text(x, y, text=text, ...)
RECURSIVE DrawTexts(_, _, _, _)
DrawTexts(canvas, kept, texts, i) ==
    IF i > Len(texts) THEN canvas
    ELSE DrawTexts(CreateItem(canvas, kept, "text", <<texts[i][1], texts[i][2]>>, texts[i][3]),
                   kept, texts, i + 1)

\* redraw_annotations: the strokes, then the texts, of the current page's record
RedrawAnnotations(canvas, kept, d, page) ==
    IF page \notin DictKeys(d) THEN Drawn(canvas, FALSE)
    ELSE LET page_ann == DictGet(d, page)
             lines == DrawStrokes(canvas, kept, page_ann.strokes, 1)
         IN  IF lines.raised THEN lines
             ELSE Drawn(DrawTexts(lines.canvas, kept, page_ann.texts, 1), FALSE)

\* display_page.  renderOk: whether the rendering of the page (get_pixmap,
\* Image.frombytes, PhotoImage) succeeds; it raises before the canvas is touched.
DisplayPage(win, d, renderOk) ==
    IF Falsy(win.doc) THEN Drawn(win.canvas, FALSE)
    ELSE IF win.current_page >= DocLen(win.doc) \/ ~renderOk THEN Drawn(win.canvas, TRUE)
    ELSE RedrawAnnotations(CreateItem(<<>>, win.current_line, "image", <<0, 0>>, ""),
                           win.current_line, d, win.current_page)

----------------------------------------------------------------------------
(* PDFAnnotator: saving.                                                    *)

Polyline(points) == [kind |-> "polyline", pts |-> points, text |-> ""]

InsertedText(t) == [kind |-> "text", pts |-> <<<<t[1], t[2]>>>>, text |-> t[3]]

Flattened(doc, raised) == [doc |-> doc, raised |-> raised]

\* One round of the loop of save_pdf.  The strokes go to a Shape that reaches the
\* page at shape.commit(); draw_polyline raises on an empty point list; the texts
\* go to the page at once.  commitOk: whether shape.commit() succeeds.
FlattenEntry(doc, ann, commitOk) ==
    IF ann.key >= DocLen(doc) THEN Flattened(doc, TRUE)
    ELSE IF \E i \in 1..Len(ann.strokes) : ann.strokes[i] = <<>> THEN Flattened(doc, TRUE)
    ELSE LET texts == [i \in 1..Len(ann.texts) |-> InsertedText(ann.texts[i])]
             lines == [i \in 1..Len(ann.strokes) |-> Polyline(ann.strokes[i])]
             inserted == [doc EXCEPT !.pages[ann.key + 1] = @ \o texts]
         IN  IF commitOk THEN Flattened([inserted EXCEPT !.pages[ann.key + 1] = @ \o lines], FALSE)
             ELSE Flattened(inserted, TRUE)

\* for page_num, ann in self.annotations.items(): ...   then self.doc.save(path).
\* failAt = i: the library raises in round i, at commit; failAt = Len(d) + 1:
\* doc.save raises; failAt = 0: the library raises nowhere.
RECURSIVE FlattenFrom(_, _, _, _)
FlattenFrom(doc, d, i, failAt) ==
    IF i > Len(d) THEN Flattened(doc, failAt = i)
    ELSE LET r == FlattenEntry(doc, d[i], failAt # i)
         IN  IF r.raised THEN r ELSE FlattenFrom(r.doc, d, i + 1, failAt)


----------------------------------------------------------------------------
(* PDFAnnotator: the object and its handlers.                               *)

\* a slip: one dict for all the instances (a class attribute)
SharedDict(h) == 1

\* `{}` in a constructor: a new dict object, here its reference in the heap
NewDict(h) == Len(h) + 1

\* PDFAnnotator.__init__
PDFAnnotatorInit(ref) ==
    [kind |-> "pdf", doc |-> NoDoc, current_page |-> 0, annotations |-> ref,
     mode |-> "draw", current_line |-> NoLine, canvas |-> <<>>]

IsPdf(w) == w \in 1..Len(windows) /\ windows[w].kind = "pdf"

\* self.annotations of window w
Ann(w) == heap[windows[w].annotations]

\* A handler of window w ran: its object, its dict, the message and the pointer.
Becomes(w, win, d, rep, m) ==
    /\ windows' = [windows EXCEPT ![w] = win]
    /\ heap' = [heap EXCEPT ![windows[w].annotations] = d]
    /\ report' = rep
    /\ mouse' = [mouse EXCEPT ![w] = m]
    /\ steps < MaxSteps
    /\ steps' = steps + 1
    /\ UNCHANGED imports

\* the gesture in progress, after a handler other than on_drag ran during it
Interrupted(m) == IF m.pressed THEN [m EXCEPT !.clean = FALSE, !.pts = <<>>] ELSE m

\* the same, when that handler replaced the document
Replaced(m) == [Interrupted(m) EXCEPT !.replaced = m.pressed]

\* open_pdf
OpenPdf(w) ==
    /\ IsPdf(w)
    /\ \E path \in PdfPaths \cup {""} :
        LET win == windows[w] IN
        IF path = "" THEN
            Becomes(w, win, Ann(w), "none", Interrupted(mouse[w]))
        ELSE IF PageCount(path) < 0 THEN
            Becomes(w, win, Ann(w), "error", Interrupted(mouse[w]))
        ELSE
            \E renderOk \in BOOLEAN :
                LET opened == [win EXCEPT !.doc = NewDoc(path), !.current_page = 0]
                    shown == DisplayPage(opened, <<>>, renderOk)
                IN  Becomes(w, [opened EXCEPT !.canvas = shown.canvas], <<>>,
                            IF shown.raised THEN "error" ELSE "none", Replaced(mouse[w]))

\* self.current_page > 0
HasPrev(win) == win.current_page > 0

\* a slip: the bound of the last page off by one
HasNextOffByOne(win) == win.current_page <= DocLen(win.doc) - 1

\* self.current_page < len(self.doc) - 1
HasNext(win) == win.current_page < DocLen(win.doc) - 1

\* prev_page and next_page: an exception of display_page leaves the handler,
\* and Tk prints its traceback
Turn(w, has, delta) ==
    /\ IsPdf(w)
    /\ LET win == windows[w] IN
        IF Falsy(win.doc) \/ ~has THEN
            Becomes(w, win, Ann(w), "none", Interrupted(mouse[w]))
        ELSE
            \E renderOk \in BOOLEAN :
                LET turned == [win EXCEPT !.current_page = @ + delta]
                    shown == DisplayPage(turned, Ann(w), renderOk)
                IN  Becomes(w, [turned EXCEPT !.canvas = shown.canvas], Ann(w),
                            IF shown.raised THEN "traceback" ELSE "none",
                            Interrupted(mouse[w]))

PrevPage(w) == IsPdf(w) /\ Turn(w, HasPrev(windows[w]), -1)

NextPage(w) == IsPdf(w) /\ Turn(w, HasNext(windows[w]), 1)

\* set_mode
SetMode(w) ==
    /\ IsPdf(w)
    /\ \E mode \in {"draw", "text"} :
        Becomes(w, [windows[w] EXCEPT !.mode = mode], Ann(w), "none", Interrupted(mouse[w]))

\* on_press, draw mode: a line from the point to itself
PressDraw(win, pt) ==
    [win EXCEPT !.current_line = FreshId(win.canvas, win.current_line),
                !.canvas = CreateItem(win.canvas, win.current_line, "line",
                                      <<pt[1], pt[2], pt[1], pt[2]>>, "")]

\* a slip: the record of the page is made before the text is looked at
PressTextEager(win, d, pt, text) ==
    IF text # "" THEN
        [win |-> [win EXCEPT !.canvas = CreateItem(win.canvas, win.current_line, "text",
                                                   <<pt[1], pt[2]>>, text)],
         d |-> AppendText(d, win.current_page, <<pt[1], pt[2], text>>)]
    ELSE [win |-> win, d |-> SetDefault(d, win.current_page)]

\* on_press, text mode: the window and the dict after `if text:` ...
PressText(win, d, pt, text) ==
    IF text # "" THEN
        [win |-> [win EXCEPT !.canvas = CreateItem(win.canvas, win.current_line, "text",
                                                   <<pt[1], pt[2]>>, text)],
         d |-> AppendText(d, win.current_page, <<pt[1], pt[2], text>>)]
    ELSE [win |-> win, d |-> d]

\* on_press
OnPress(w) ==
    /\ IsPdf(w)
    /\ ~mouse[w].pressed
    /\ \E pt \in EventPoints :
        LET win == windows[w]
            m == [pressed |-> TRUE, clean |-> win.mode = "draw", page |-> win.current_page,
                  replaced |-> FALSE, pts |-> IF win.mode = "draw" THEN <<pt>> ELSE <<>>]
        IN  IF win.mode = "draw" THEN
                Becomes(w, PressDraw(win, pt), Ann(w), "none", m)
            ELSE IF win.mode = "text" THEN
                \E text \in TextInputs :
                    LET r == PressText(win, Ann(w), pt, text)
                    IN  Becomes(w, r.win, r.d, "none", m)
            ELSE Becomes(w, win, Ann(w), "none", m)

\* on_drag
OnDrag(w) ==
    /\ IsPdf(w)
    /\ mouse[w].pressed
    /\ \E pt \in EventPoints :
        LET win == windows[w]
            m == [mouse[w] EXCEPT !.pts = IF mouse[w].clean THEN Append(@, pt) ELSE @]
        IN  IF win.mode = "draw" /\ win.current_line # NoLine THEN
                LET coords == Coords(win.canvas, win.current_line) \o <<pt[1], pt[2]>>
                IN  Becomes(w, [win EXCEPT !.canvas = SetCoords(@, win.current_line, coords)],
                            Ann(w), "none", m)
            ELSE Becomes(w, win, Ann(w), "none", m)

\* on_release
OnRelease(w) ==
    /\ IsPdf(w)
    /\ mouse[w].pressed
    /\ LET win == windows[w] IN
        IF win.mode = "draw" /\ win.current_line # NoLine THEN
            LET coords == Coords(win.canvas, win.current_line)
                points == Points(coords)
            IN  Becomes(w, [win EXCEPT !.current_line = NoLine],
                        AppendStroke(Ann(w), win.current_page, points), "none", Idle)
        ELSE Becomes(w, win, Ann(w), "none", Idle)

\* save_pdf
SavePdf(w) ==
    /\ IsPdf(w)
    /\ LET win == windows[w] IN
        IF Falsy(win.doc) THEN
            Becomes(w, win, Ann(w), "none", Interrupted(mouse[w]))
        ELSE
            \E save_path \in {"", "out.pdf"} :
                IF save_path = "" THEN
                    Becomes(w, win, Ann(w), "none", Interrupted(mouse[w]))
                ELSE
                    \E failAt \in 0..(Len(Ann(w)) + 1) :
                        LET r == FlattenFrom(win.doc, Ann(w), 1, failAt)
                        IN  Becomes(w, [win EXCEPT !.doc = r.doc], Ann(w),
                                    IF r.raised THEN "error" ELSE "info",
                                    Interrupted(mouse[w]))

----------------------------------------------------------------------------
(* One annotator window.                                                    *)

Init ==
    /\ windows = <<PDFAnnotatorInit(NewDict(<<>>))>>
    /\ heap = <<<<>>>>
    /\ report = "none"
    /\ mouse = <<Idle>>
    /\ imports = {"pdf", "shot", "conv"}
    /\ steps = 0

Next ==
    \/ \E w \in 1..Len(windows) : OpenPdf(w)
    \/ \E w \in 1..Len(windows) : PrevPage(w)
    \/ \E w \in 1..Len(windows) : NextPage(w)
    \/ \E w \in 1..Len(windows) : SetMode(w)
    \/ \E w \in 1..Len(windows) : OnPress(w)
    \/ \E w \in 1..Len(windows) : OnDrag(w)
    \/ \E w \in 1..Len(windows) : OnRelease(w)
    \/ \E w \in 1..Len(windows) : SavePdf(w)

Spec == Init /\ [][Next]_vars


----------------------------------------------------------------------------
(* ConverterTool and ScreenshotTool.                                        *)

\* ConverterTool.__init__: input_path is None ("" here)
ConverterInit == [kind |-> "conv", input_path |-> ""]

\* ScreenshotTool.__init__
ScreenshotInit == [kind |-> "shot"]

IsTool(w, kind) == w \in 1..Len(windows) /\ windows[w].kind = kind

\* A handler of a window that holds no dict ran.
Shows(w, win, rep) ==
    /\ windows' = [windows EXCEPT ![w] = win]
    /\ report' = rep
    /\ steps < MaxSteps
    /\ steps' = steps + 1
    /\ UNCHANGED <<heap, mouse, imports>>

\* choose_file
ChooseFile(w) ==
    /\ IsTool(w, "conv")
    /\ \E path \in {"", "a.pdf", "pic.png"} :
        Shows(w, IF path # "" THEN [windows[w] EXCEPT !.input_path = path] ELSE windows[w],
              "none")

\* convert.  converted: whether _convert_pdf or _convert_image returns.
Convert(w) ==
    /\ IsTool(w, "conv")
    /\ IF windows[w].input_path = "" THEN Shows(w, windows[w], "warning")
       ELSE \E save_path \in {"", "out"} :
                IF save_path = "" THEN Shows(w, windows[w], "none")
                ELSE \E converted \in BOOLEAN :
                        Shows(w, windows[w], IF converted THEN "info" ELSE "error")

\* full_screen.  grabbed: whether ImageGrab.grab and img.save return.
FullScreen(w) ==
    /\ IsTool(w, "shot")
    /\ \E path \in {"", "shot.png"} :
        IF path = "" THEN Shows(w, windows[w], "none")
        ELSE \E grabbed \in BOOLEAN :
                Shows(w, windows[w], IF grabbed THEN "info" ELSE "error")

Min(a, b) == IF a < b THEN a ELSE b

Max(a, b) == IF a < b THEN b ELSE a

\* _RegionSelector.on_release: the box of the press and the release points
BBox(start, end) ==
    <<Min(start[1], end[1]), Min(start[2], end[2]), Max(start[1], end[1]), Max(start[2], end[2])>>

\* the boxes a selection can give
Boxes == {BBox(start, end) : start \in EventPoints, end \in EventPoints}

\* region: the selector window is modal (wait_window), its press and release are
\* part of the handler; `if selector.bbox` holds of every box (a 4-tuple)
Region(w) ==
    /\ IsTool(w, "shot")
    /\ \E path \in {"", "shot.png"} :
        IF path = "" \/ \A bbox \in Boxes : bbox = <<>> THEN Shows(w, windows[w], "none")
        ELSE \E grabbed \in BOOLEAN :
                Shows(w, windows[w], IF grabbed THEN "info" ELSE "error")

----------------------------------------------------------------------------
(* Dashboard.                                                               *)

\* A tile was clicked: the window opens, or the missing dependency is reported.
Opens(kind, win, h) ==
    /\ Len(windows) < MaxWindows
    /\ steps < MaxSteps
    /\ steps' = steps + 1
    /\ UNCHANGED imports
    /\ IF kind \in imports THEN
           /\ windows' = Append(windows, win)
           /\ heap' = h
           /\ mouse' = Append(mouse, Idle)
           /\ report' = "none"
       ELSE
           /\ report' = "error"
           /\ UNCHANGED <<windows, heap, mouse>>

\* the heap after `self.annotations = {}` gave the reference ref
Allocated(h, ref) == IF ref > Len(h) THEN Append(h, <<>>) ELSE h

\* open_pdf_annotator
OpenPdfAnnotator ==
    Opens("pdf", PDFAnnotatorInit(NewDict(heap)), Allocated(heap, NewDict(heap)))

\* open_screenshot
OpenScreenshot == Opens("shot", ScreenshotInit, heap)

\* open_converter
OpenConverter == Opens("conv", ConverterInit, heap)

\* main.py, the imports: pdf_annotator and converter need PyMuPDF and Pillow,
\* screenshot_tool needs Pillow
InitDash ==
    /\ windows = <<>>
    /\ heap = <<>>
    /\ report = "none"
    /\ mouse = <<>>
    /\ imports \in {{}, {"shot"}, {"pdf", "shot", "conv"}}
    /\ steps = 0

NextDash ==
    \/ OpenPdfAnnotator
    \/ OpenScreenshot
    \/ OpenConverter
    \/ Next
    \/ \E w \in 1..Len(windows) : ChooseFile(w)
    \/ \E w \in 1..Len(windows) : Convert(w)
    \/ \E w \in 1..Len(windows) : FullScreen(w)
    \/ \E w \in 1..Len(windows) : Region(w)

SpecDash == InitDash /\ [][NextDash]_vars


----------------------------------------------------------------------------
(* Properties.                                                              *)

PdfWindows == {w \in 1..Len(windows) : windows[w].kind = "pdf"}

\* the strokes and the texts a canvas shows, as the record would hold them
IsLine(item) == item.kind = "line"

IsText(item) == item.kind = "text"

ShownStrokes(canvas) ==
    LET lines == SelectSeq(canvas, IsLine)
    IN  [i \in 1..Len(lines) |-> Points(lines[i].coords)]

ShownTexts(canvas) ==
    LET texts == SelectSeq(canvas, IsText)
    IN  [i \in 1..Len(texts) |-> <<texts[i].coords[1], texts[i].coords[2], texts[i].text>>]

\* C1: no failure of a library call leaves a handler unreported: the last
\* handler never ended with a traceback instead of a modal message.
C1_NoFailureEscapes == report # "traceback"

\* C2: after a save_pdf that succeeded, the annotations that were flattened
\* into the document are no longer held in self.annotations.
C2_SavedNotRetained ==
    \A w \in PdfWindows : report = "info" => NumMarks(Ann(w)) = 0

C3NoEmptyEntry ==
    \A w \in PdfWindows : \A i \in 1..Len(Ann(w)) :
        Ann(w)[i].strokes # <<>> \/ Ann(w)[i].texts # <<>>

C3EntryByMark ==
    \A w \in PdfWindows : \A p \in DictKeys(Ann(w))' \ DictKeys(Ann(w)) :
        /\ p = windows[w].current_page
        /\ NumMarks(Ann(w))' = NumMarks(Ann(w)) + 1
        /\ \/ OnRelease(w) /\ windows[w].mode = "draw"
           \/ OnPress(w) /\ windows[w].mode = "text"

\* C3: the record of a page is created lazily: an entry appears only in a step
\* of on_release (draw mode) or on_press (text mode) that adds a mark to the
\* current page, and no entry has both lists empty.
C3_LazyRecord == [](C3NoEmptyEntry) /\ [][C3EntryByMark]_vars

\* C3, witness: page 1 has a record and page 0, never marked, has none
C3_Witness == \E w \in PdfWindows : DictKeys(Ann(w)) = {1}

\* C4: every stroke held in annotations was made on the open document: no
\* stroke is recorded from a gesture that began before open_pdf replaced the
\* document.
C4_MadeOnOpenDocument ==
    [][\A w \in PdfWindows :
        NumMarks(Ann(w))' > NumMarks(Ann(w)) => ~mouse[w].replaced]_vars

C5Untouched(w) == Ann(w)' = Ann(w)

C5OnlyCurrentPage(w) ==
    \A p \in (DictKeys(Ann(w)) \cup DictKeys(Ann(w))') \ {windows[w].current_page} :
        /\ p \in DictKeys(Ann(w)) /\ p \in DictKeys(Ann(w))'
        /\ DictGet(Ann(w)', p) = DictGet(Ann(w), p)

\* C5: prev_page, next_page, set_mode and save_pdf leave annotations unchanged,
\* and a pointer or text event changes the record of the current page only.
C5_OnlyMarksMutate ==
    [][\A w \in PdfWindows :
        /\ C5Untouched(w) \/ ~(PrevPage(w) \/ NextPage(w) \/ SetMode(w) \/ SavePdf(w))
        /\ C5OnlyCurrentPage(w) \/ ~(OnPress(w) \/ OnDrag(w) \/ OnRelease(w))]_vars

\* C5, witness: a record was made on each of two pages
C5_Witness == \E w \in PdfWindows : DictKeys(Ann(w)) = {0, 1} /\ NumMarks(Ann(w)) >= 2

\* what window v holds: its object, its annotations, its pointer
WinState(v) ==
    <<windows[v], IF windows[v].kind = "pdf" THEN Ann(v) ELSE <<>>, mouse[v]>>

ActionIn(w) ==
    \/ OpenPdf(w) \/ PrevPage(w) \/ NextPage(w) \/ SetMode(w)
    \/ OnPress(w) \/ OnDrag(w) \/ OnRelease(w) \/ SavePdf(w)
    \/ ChooseFile(w) \/ Convert(w) \/ FullScreen(w) \/ Region(w)

\* C6: a handler of one window, and the opening of a new window, leave the
\* state of every other window unchanged.
C6_WindowsIndependent ==
    [][/\ \A w \in 1..Len(windows) :
            \/ \A v \in 1..Len(windows) \ {w} : WinState(v)' = WinState(v)
            \/ ~ActionIn(w)
       /\ \/ \A v \in 1..Len(windows) : WinState(v)' = WinState(v)
          \/ ~(OpenPdfAnnotator \/ OpenScreenshot \/ OpenConverter)]_vars

\* C6, witness: two annotator windows, marks made in the second only
C6_Witness ==
    /\ Len(windows) = 2 /\ PdfWindows = {1, 2}
    /\ NumMarks(Ann(1)) = 0 /\ NumMarks(Ann(2)) > 0 /\ ~windows[1].doc.isNone

\* C7: a press at p, drags at d1..dn and a release, in draw mode with no other
\* handler in between, append exactly the stroke p, p, d1, ..., dn to the
\* current page's record, after the strokes recorded before.
C7_StrokeIsTheDrag ==
    [][\A w \in PdfWindows :
        (OnRelease(w) /\ mouse[w].clean) =>
            LET page == windows[w].current_page
                pts == mouse[w].pts
            IN  /\ DictGet(Ann(w)', page).strokes =
                       Append(DictGet(Ann(w), page).strokes, <<pts[1]>> \o pts)
                /\ DictGet(Ann(w)', page).texts = DictGet(Ann(w), page).texts]_vars

\* C7, witness: a second stroke of a page, made of a press and a drag elsewhere
C7_Witness ==
    \E w \in PdfWindows : \E i \in 1..Len(Ann(w)) :
        /\ Len(Ann(w)[i].strokes) = 2
        /\ Len(Ann(w)[i].strokes[2]) = 3
        /\ Ann(w)[i].strokes[2][2] # Ann(w)[i].strokes[2][3]

\* C8, as stated: whenever a document is open, 0 <= current_page <= len(doc) - 1.
C8_PageInRangeOfAnyDocument ==
    \A w \in PdfWindows :
        ~windows[w].doc.isNone =>
            0 <= windows[w].current_page /\ windows[w].current_page <= DocLen(windows[w].doc) - 1

C8InRange ==
    \A w \in PdfWindows :
        (~windows[w].doc.isNone /\ DocLen(windows[w].doc) >= 1) =>
            0 <= windows[w].current_page /\ windows[w].current_page <= DocLen(windows[w].doc) - 1

C8NoOp ==
    \A w \in PdfWindows :
        /\ (PrevPage(w) /\ (Falsy(windows[w].doc) \/ windows[w].current_page = 0))
               => UNCHANGED <<windows, heap>>
        /\ (NextPage(w) /\ (Falsy(windows[w].doc)
                            \/ windows[w].current_page = DocLen(windows[w].doc) - 1))
               => UNCHANGED <<windows, heap>>

\* C8, amended: whenever a document of at least one page is open,
\* 0 <= current_page <= len(doc) - 1; prev_page on the first page, next_page on
\* the last page, and both with no document (or one without pages), change
\* nothing.
C8_PageInRange == [](C8InRange) /\ [][C8NoOp]_vars

\* C8, witness: the last page of a document of several pages is shown
C8_Witness ==
    \E w \in PdfWindows :
        /\ ~windows[w].doc.isNone /\ DocLen(windows[w].doc) >= 2
        /\ windows[w].current_page = DocLen(windows[w].doc) - 1

\* C9: the stroke on_release appends goes to the record of the page that was
\* displayed at the press, of the document that was open then.
C9_StrokeOnPressPage ==
    [][\A w \in PdfWindows :
        (OnRelease(w) /\ NumMarks(Ann(w))' > NumMarks(Ann(w))) =>
            /\ windows[w].current_page = mouse[w].page
            /\ ~mouse[w].replaced
            /\ Len(DictGet(Ann(w)', mouse[w].page).strokes)
                   = Len(DictGet(Ann(w), mouse[w].page).strokes) + 1]_vars

\* C10: with no press awaiting its release, the canvas shows exactly the
\* strokes and texts of the current page's record, and current_line is None.
C10_ShownIsRecorded ==
    \A w \in PdfWindows :
        ~mouse[w].pressed =>
            /\ windows[w].current_line = NoLine
            /\ ShownStrokes(windows[w].canvas) = DictGet(Ann(w), windows[w].current_page).strokes
            /\ ShownTexts(windows[w].canvas) = DictGet(Ann(w), windows[w].current_page).texts

============================================================================
